---- MODULE Spec2Model ----
(***************************************************************************)
(* Model of the backtest experiment manager of src/app.py: one browser     *)
(* session of create_experiment_ui.  Every user interaction re-runs the    *)
(* script top to bottom; the task registry st.session_state.tasks survives *)
(* between script runs.  A script run in which a button is clicked is cut  *)
(* at its two blocking points, the sleep of the progress ramp and the      *)
(* external process of subprocess.run.                                     *)
(***************************************************************************)
EXTENDS Integers, Sequences, FiniteSets, TLC

VARIABLES
    fileExists,   \* experiments_config.json can be opened (app.py:29)
    experiments,  \* manager.experiments, the leaf combinations in iteration order
    tasks,        \* st.session_state.tasks: key -> ExperimentTask
    pc,           \* position of the script: "idle" | "ramp" | "invoke"
    cur,          \* the button whose handler runs (or ran last): [combo, stage]
    i,            \* the ramp's loop variable: iterations of range(100) done
    outcome,      \* what the external process of the last run did
    calls,        \* argument vectors handed to subprocess.run by the current run
    shown,        \* st.error messages of the current script run
    errStream,    \* e.stderr: what the last process wrote on its error stream
    exc,          \* exception that ended the last script run, "None" if none
    clicks        \* button clicks of the session so far

vars == <<fileExists, experiments, tasks, pc, cur, i, outcome, calls, shown, errStream,
          exc, clicks>>

----------------------------------------------------------------------------
(* Bounds of the model *)

MaxClicks == 3

StderrTexts == {"bad universe", ""}

(* Catalogs the configuration file may hold: exp_type -> universe -> product *)
CatOne == << <<"meanrev", "equities", "ES">> >>
CatTwo == << <<"meanrev", "equities", "ES">>, <<"meanrev", "futures", "ES">> >>
CatUnderscore == << <<"a_b", "c", "p">>, <<"a", "b_c", "p">> >>
Catalogs == {CatOne, CatTwo, CatUnderscore}

----------------------------------------------------------------------------
(* TaskStatus, app.py:10-14 *)
NOT_STARTED == "Not Started"
IN_PROGRESS == "In Progress"
COMPLETED == "Completed"
FAILED == "Failed"
TaskStatus == {NOT_STARTED, IN_PROGRESS, COMPLETED, FAILED}

(* range(100) of the progress ramp; progress is counted in hundredths *)
RampSteps == 100

Stages == {"check", "batch", "summary"}

(* f"{exp_type}_{universe}_{product}_check" and its two siblings *)
TaskKey(combo, stage) ==
    combo[1] \o "_" \o combo[2] \o "_" \o combo[3] \o "_" \o stage

(* ExperimentTask(name=key, status=TaskStatus.NOT_STARTED), progress 0.0 *)
NewTask(key) == [name |-> key, status |-> NOT_STARTED, progress |-> 0]

(* EnsureTask without its membership test: every lookup stores a fresh task *)
EnsureTaskOverwrites(t, key) ==
    [k \in DOMAIN t \cup {key} |-> IF k = key THEN NewTask(key) ELSE t[k]]

(* if key not in st.session_state.tasks: st.session_state.tasks[key] = ... *)
EnsureTask(t, key) ==
    IF key \in DOMAIN t THEN t
    ELSE [k \in DOMAIN t \cup {key} |-> IF k = key THEN NewTask(key) ELSE t[k]]

(* for key in [check_key, batch_key, summary_key]: ... *)
EnsureCombo(t, combo) ==
    EnsureTask(EnsureTask(EnsureTask(t, TaskKey(combo, "check")),
                          TaskKey(combo, "batch")),
               TaskKey(combo, "summary"))

(* EnsureUpTo with st.session_state.tasks = {} run on every script run *)
EnsureUpToFresh(t, cat, n) ==
    [k \in UNION {{TaskKey(cat[j], s) : s \in Stages} : j \in 1..n} |-> NewTask(k)]

(* The initialisation loop for the first n combinations of the catalog *)
RECURSIVE EnsureUpTo(_, _, _)
EnsureUpTo(t, cat, n) ==
    IF n = 0 THEN t ELSE EnsureCombo(EnsureUpTo(t, cat, n - 1), cat[n])

(* Script with run_batch and summarize left as copies of run_check *)
ScriptCopied(stage) == "check_experiment.py"

(* The script name each manager method passes to subprocess.run *)
Script(stage) ==
    CASE stage = "check" -> "check_experiment.py"
      [] stage = "batch" -> "run_batch.py"
      [] stage = "summary" -> "summarize.py"

(* The argument vector of subprocess.run *)
Argv(stage, combo) ==
    <<"python", Script(stage), "--experiment", combo[1],
      "--universe", combo[2], "--product", combo[3]>>

(* ErrorText with e.stderr left out of the message *)
ErrorTextBare(stage, stderr) ==
    CASE stage = "check" -> "Check failed"
      [] stage = "batch" -> "Batch run failed"
      [] stage = "summary" -> "Summary generation failed"

(* st.error(f"Check failed: {e.stderr}") and its two siblings *)
ErrorText(stage, stderr) ==
    CASE stage = "check" -> "Check failed: " \o stderr
      [] stage = "batch" -> "Batch run failed: " \o stderr
      [] stage = "summary" -> "Summary generation failed: " \o stderr

(* StageSucceeds with check=True left out: no exit status raises *)
StageSucceedsUnchecked(exit) == TRUE

(* return True after subprocess.run(check=True); return False in the handler
   of CalledProcessError, which a non-zero exit status raises *)
StageSucceeds(exit) == exit = "exit0"

(* task.status = TaskStatus.COMPLETED if success else TaskStatus.FAILED *)
FinalStatus(success) == IF success THEN COMPLETED ELSE FAILED

(* EntryStatus with the assignment left out *)
EntryStatusKept(task) == task

(* task.status = TaskStatus.IN_PROGRESS *)
EntryStatus(task) == [task EXCEPT !.status = IN_PROGRESS]

(* RampProgress computed from i instead of i + 1 *)
RampProgressShort(task, n) == [task EXCEPT !.progress = n]

(* task.progress = (i + 1) / 100 *)
RampProgress(task, n) == [task EXCEPT !.progress = n + 1]

CurCombo == experiments[cur.combo]

(* CurKey with check_key left in the copies of the CHECK handler *)
CurKeyCopied == TaskKey(CurCombo, "check")

CurKey == TaskKey(CurCombo, cur.stage)

----------------------------------------------------------------------------
Init ==
    /\ fileExists \in BOOLEAN
    /\ experiments \in Catalogs
    /\ tasks = [k \in {} |-> NewTask(k)]
    /\ pc = "idle"
    /\ cur = [combo |-> 1, stage |-> "check"]
    /\ i = 0
    /\ outcome = "none"
    /\ calls = <<>>
    /\ shown = <<>>
    /\ errStream = ""
    /\ exc = "None"
    /\ clicks = 0

(* A script run whose json load fails: open() raises before any task exists *)
LoadFails ==
    /\ pc = "idle"
    /\ ~fileExists
    /\ exc' = "FileNotFoundError"
    /\ shown' = <<>>
    /\ UNCHANGED <<fileExists, experiments, tasks, pc, cur, i, outcome, calls, errStream,
                   clicks>>

(* Render with the failure of the json load swallowed *)
RenderUnloaded ==
    /\ pc = "idle"
    /\ tasks' = EnsureUpTo(tasks, experiments, Len(experiments))
    /\ exc' = "None"
    /\ shown' = <<>>
    /\ UNCHANGED <<fileExists, experiments, pc, cur, i, outcome, calls, errStream, clicks>>

(* A script run with no button clicked: every combination's tasks are looked up *)
Render ==
    /\ pc = "idle"
    /\ fileExists
    /\ tasks' = EnsureUpTo(tasks, experiments, Len(experiments))
    /\ exc' = "None"
    /\ shown' = <<>>
    /\ UNCHANGED <<fileExists, experiments, pc, cur, i, outcome, calls, errStream, clicks>>

(* Click with a stage's button live only once the stage before it completed *)
ClickInOrder(c, s) ==
    /\ pc = "idle"
    /\ fileExists
    /\ clicks < MaxClicks
    /\ TaskKey(experiments[c], s) \in DOMAIN tasks
    /\ s = "batch" => tasks[TaskKey(experiments[c], "check")].status = COMPLETED
    /\ s = "summary" => tasks[TaskKey(experiments[c], "batch")].status = COMPLETED
    /\ LET key == TaskKey(experiments[c], s)
           t == EnsureUpTo(tasks, experiments, c)
       IN tasks' = [t EXCEPT ![key] = EntryStatus(t[key])]
    /\ cur' = [combo |-> c, stage |-> s]
    /\ pc' = "ramp"
    /\ i' = 0
    /\ outcome' = "none"
    /\ calls' = <<>>
    /\ shown' = <<>>
    /\ errStream' = ""
    /\ exc' = "None"
    /\ clicks' = clicks + 1
    /\ UNCHANGED <<fileExists, experiments>>

(* A script run with the button of (combination c, stage s) clicked, up to the
   first sleep of the ramp.  The button exists once its task has been created. *)
Click(c, s) ==
    /\ pc = "idle"
    /\ fileExists
    /\ clicks < MaxClicks
    /\ TaskKey(experiments[c], s) \in DOMAIN tasks
    /\ LET key == TaskKey(experiments[c], s)
           t == EnsureUpTo(tasks, experiments, c)
       IN tasks' = [t EXCEPT ![key] = EntryStatus(t[key])]
    /\ cur' = [combo |-> c, stage |-> s]
    /\ pc' = "ramp"
    /\ i' = 0
    /\ outcome' = "none"
    /\ calls' = <<>>
    /\ shown' = <<>>
    /\ errStream' = ""
    /\ exc' = "None"
    /\ clicks' = clicks + 1
    /\ UNCHANGED <<fileExists, experiments>>

(* One iteration of for i in range(100) *)
RampStep ==
    /\ pc = "ramp"
    /\ i < RampSteps
    /\ tasks' = [tasks EXCEPT ![CurKey] = RampProgress(tasks[CurKey], i)]
    /\ i' = i + 1
    /\ pc' = IF i + 1 = RampSteps THEN "invoke" ELSE "ramp"
    /\ UNCHANGED <<fileExists, experiments, cur, outcome, calls, shown, errStream, exc,
                   clicks>>

(* What the clicked handler and the rest of the script do to the registry once
   the manager method has returned success *)
Settle(t, key, success) ==
    EnsureUpTo([t EXCEPT ![key].status = FinalStatus(success)],
               experiments, Len(experiments))

(* The external process exits with status zero *)
ExitZero ==
    /\ pc = "invoke"
    /\ calls' = Append(calls, Argv(cur.stage, CurCombo))
    /\ outcome' = "exit0"
    /\ tasks' = Settle(tasks, CurKey, StageSucceeds("exit0"))
    /\ pc' = "idle"
    /\ i' = 0
    /\ UNCHANGED <<fileExists, experiments, cur, shown, errStream, exc, clicks>>

(* The external process exits non-zero with stderr on its error stream:
   CalledProcessError is caught and reported with st.error *)
ExitNonZero ==
    /\ pc = "invoke"
    /\ \E text \in StderrTexts :
         /\ errStream' = text
         /\ shown' = Append(shown, ErrorText(cur.stage, text))
    /\ calls' = Append(calls, Argv(cur.stage, CurCombo))
    /\ outcome' = "nonzero"
    /\ tasks' = Settle(tasks, CurKey, StageSucceeds("nonzero"))
    /\ pc' = "idle"
    /\ i' = 0
    /\ UNCHANGED <<fileExists, experiments, cur, exc, clicks>>

(* subprocess.run cannot launch the executable: FileNotFoundError is no
   CalledProcessError, so it leaves the manager method and ends the script *)
SpawnFails ==
    /\ pc = "invoke"
    /\ calls' = Append(calls, Argv(cur.stage, CurCombo))
    /\ outcome' = "spawnfail"
    /\ exc' = "FileNotFoundError"
    /\ pc' = "idle"
    /\ i' = 0
    /\ UNCHANGED <<fileExists, experiments, tasks, cur, shown, errStream, clicks>>

Next ==
    \/ LoadFails
    \/ Render
    \/ \E c \in 1..Len(experiments), s \in Stages : Click(c, s)
    \/ RampStep
    \/ ExitZero
    \/ ExitNonZero
    \/ SpawnFails

Spec == Init /\ [][Next]_vars

(* The script thread is not starved: the ramp goes on, and the external
   process ends, by exiting or by failing to start *)
FairSpec ==
    /\ Spec
    /\ WF_vars(RampStep)
    /\ WF_vars(ExitZero \/ ExitNonZero \/ SpawnFails)

----------------------------------------------------------------------------
(* Properties *)

Identities == (1..Len(experiments)) \X Stages
KeyOf(id) == TaskKey(experiments[id[1]], id[2])

LegalTransitions ==
    {<<NOT_STARTED, IN_PROGRESS>>, <<IN_PROGRESS, COMPLETED>>,
     <<IN_PROGRESS, FAILED>>, <<COMPLETED, IN_PROGRESS>>, <<FAILED, IN_PROGRESS>>}

(* C1: after a run whose external process returned, the task's status is
   Completed if the process exited with status zero and Failed if it exited
   non-zero. *)
RunOutcomeDecidesStatus ==
    /\ (pc = "idle" /\ outcome = "exit0") => tasks[CurKey].status = COMPLETED
    /\ (pc = "idle" /\ outcome = "nonzero") => tasks[CurKey].status = FAILED

RunOutcomeDecidesStatusWitness ==
    /\ pc = "idle"
    /\ outcome = "nonzero"
    /\ tasks[CurKey].status = FAILED
    /\ \E k \in DOMAIN tasks : tasks[k].status = COMPLETED

(* C2: every change of a task's status is one of the five legal transitions,
   every task's status is one of the four enumerated values, and a task that
   appears in the registry appears as NotStarted. *)
OnlyLegalTransitions ==
    /\ [](\A k \in DOMAIN tasks : tasks[k].status \in TaskStatus)
    /\ [][\A k \in DOMAIN tasks' :
            IF k \in DOMAIN tasks
            THEN tasks'[k].status # tasks[k].status
                   => <<tasks[k].status, tasks'[k].status>> \in LegalTransitions
            ELSE tasks'[k].status = NOT_STARTED]_vars

OnlyLegalTransitionsWitness ==
    /\ pc = "ramp"
    /\ i > 0
    /\ clicks = 3
    /\ \E k \in DOMAIN tasks : tasks[k].status = COMPLETED
    /\ \E k \in DOMAIN tasks : tasks[k].status = FAILED

(* C3: while a run on one identity is under way, the record it writes is the
   record of no other identity of the catalog: distinct identities have
   distinct registry keys. *)
RunWritesOwnRecordOnly ==
    pc # "idle" =>
        \A id \in Identities :
            id # <<cur.combo, cur.stage>> => KeyOf(id) # CurKey

(* C4: a click on an identity whose task is InProgress is rejected with
   TaskBusyError: no ramp starts and the registry is left as it was. *)
SecondRunRejected ==
    [][(pc = "idle" /\ clicks' = clicks + 1
          /\ tasks[KeyOf(<<cur'.combo, cur'.stage>>)].status = IN_PROGRESS)
        => (pc' = "idle" /\ exc' = "TaskBusyError" /\ tasks' = tasks)]_vars

(* C5: when a Completed or Failed task is run again, its progress is 0.0 in
   the state where its status becomes InProgress. *)
ReRunResetsProgress ==
    [][(pc = "idle" /\ pc' = "ramp"
          /\ tasks[KeyOf(<<cur'.combo, cur'.stage>>)].status \in {COMPLETED, FAILED})
        => LET key == KeyOf(<<cur'.combo, cur'.stage>>)
           IN tasks'[key].status = IN_PROGRESS /\ tasks'[key].progress = 0]_vars

(* C6: a run whose executable could not be launched ends with the task
   Failed and with no exception raised past the run. *)
SpawnFailureEndsFailed ==
    (pc = "idle" /\ outcome = "spawnfail") =>
        (tasks[CurKey].status = FAILED /\ exc = "None")

(* C7: from the entry to InProgress until the final status is written the
   progress of the running task never decreases, and it is 1.0 when the stage
   is invoked and when the final status is written. *)
ProgressNeverDecreasesInRun ==
    /\ [][(pc \in {"ramp", "invoke"})
            => (tasks'[CurKey].progress >= tasks[CurKey].progress)]_vars
    /\ [](pc = "invoke" => tasks[CurKey].progress = RampSteps)
    /\ []((pc = "idle" /\ outcome \in {"exit0", "nonzero"})
            => tasks[CurKey].progress = RampSteps)

(* C8: an attempt to apply a transition outside the legal set is rejected
   with InvalidTransitionError and leaves the registry as it was. *)
IllegalTransitionRejected ==
    [][(pc = "idle" /\ pc' = "ramp"
          /\ <<tasks[KeyOf(<<cur'.combo, cur'.stage>>)].status, IN_PROGRESS>>
               \notin LegalTransitions)
        => (exc' = "InvalidTransitionError" /\ tasks' = tasks)]_vars

(* C9: in every reachable state a lookup of an identity that has a task
   leaves the task as it is, a lookup of an identity that has none stores a
   NotStarted task with progress 0.0, and a second lookup observes the same
   status and progress as the first. *)
GetOrCreateIdempotent ==
    \A id \in Identities :
        LET key == KeyOf(id)
            once == EnsureTask(tasks, key)
            twice == EnsureTask(once, key)
        IN /\ key \in DOMAIN tasks => once[key] = tasks[key]
           /\ key \notin DOMAIN tasks =>
                (once[key].status = NOT_STARTED /\ once[key].progress = 0)
           /\ twice[key].status = once[key].status
           /\ twice[key].progress = once[key].progress
           /\ \A k \in DOMAIN tasks : once[k] = tasks[k] \/ k = key

GetOrCreateIdempotentWitness ==
    /\ pc = "idle"
    /\ exc = "None"
    /\ outcome = "exit0"
    /\ \E k \in DOMAIN tasks : tasks[k].status = FAILED /\ tasks[k].progress = RampSteps
    /\ \E k \in DOMAIN tasks : tasks[k].status = NOT_STARTED

(* C10: a run hands exactly one argument vector to subprocess.run, none
   before the ramp has ended, and it names the script of the clicked stage
   and the clicked combination's experiment type, universe and product. *)
OneInvocationPerRun ==
    /\ pc \in {"ramp", "invoke"} => calls = <<>>
    /\ (pc = "idle" /\ outcome # "none") =>
          calls = << <<"python",
                       CASE cur.stage = "check" -> "check_experiment.py"
                         [] cur.stage = "batch" -> "run_batch.py"
                         [] cur.stage = "summary" -> "summarize.py",
                       "--experiment", experiments[cur.combo][1],
                       "--universe", experiments[cur.combo][2],
                       "--product", experiments[cur.combo][3]>> >>

OneInvocationPerRunWitness ==
    /\ pc = "idle"
    /\ outcome = "spawnfail"
    /\ cur.stage = "summary"
    /\ cur.combo = 2
    /\ Len(calls) = 1

(* C11: when the catalog source cannot be opened the registry holds no task,
   and every script run ends with the error of the failed load and leaves the
   registry empty. *)
NoTaskWithoutCatalog ==
    /\ [](~fileExists => DOMAIN tasks = {})
    /\ [][~fileExists => (exc' = "FileNotFoundError" /\ tasks' = tasks)]_vars

NoTaskWithoutCatalogWitness ==
    /\ ~fileExists
    /\ exc = "FileNotFoundError"
    /\ DOMAIN tasks = {}

(* C12 as claimed: when the stage exits non-zero with text T on its error
   stream, the text shown for the run is T itself, with final status Failed. *)
DiagnosticShownVerbatim ==
    [][(pc = "invoke" /\ outcome' = "nonzero")
        => (shown' = <<errStream'>> /\ tasks'[CurKey].status = FAILED)]_vars

(* C12 as amended: the text shown for the run is the stage's fixed prefix
   followed by T, unchanged, with final status Failed. *)
DiagnosticShownAfterPrefix ==
    [][(pc = "invoke" /\ outcome' = "nonzero")
        => /\ shown' = << (CASE cur.stage = "check" -> "Check failed: "
                             [] cur.stage = "batch" -> "Batch run failed: "
                             [] cur.stage = "summary" -> "Summary generation failed: ")
                          \o errStream' >>
           /\ tasks'[CurKey].status = FAILED]_vars

DiagnosticShownAfterPrefixWitness ==
    /\ pc = "idle"
    /\ outcome = "nonzero"
    /\ errStream = "bad universe"
    /\ shown = <<"Check failed: bad universe">>
    /\ tasks[CurKey].status = FAILED

(* C13: a task that entered InProgress reaches Completed or Failed by the
   end of its run, so that none stays InProgress for ever: whenever no handler
   is under way, no task is InProgress. *)
RunLeavesNoTaskInProgress ==
    pc = "idle" => \A k \in DOMAIN tasks : tasks[k].status # IN_PROGRESS

(* C14: every step of a run changes no task of the registry other than the
   task under the clicked identity's key, whatever runs came before. *)
RunChangesOwnTaskOnly ==
    [][\A k \in DOMAIN tasks :
         k # TaskKey(experiments[cur'.combo], cur'.stage)
           => (k \in DOMAIN tasks' /\ tasks'[k] = tasks[k])]_vars

RunChangesOwnTaskOnlyWitness ==
    /\ experiments = CatTwo
    /\ pc = "ramp"
    /\ cur = [combo |-> 2, stage |-> "batch"]
    /\ i = 50
    /\ tasks[TaskKey(CatTwo[1], "batch")].status = COMPLETED
    /\ tasks[TaskKey(CatTwo[2], "check")].status = FAILED
    /\ tasks[TaskKey(CatTwo[2], "summary")].status = NOT_STARTED

(* C15: a task of the registry stays in it under its own key, is never put
   back to NotStarted by a later lookup, and the registry holds one record
   per key. *)
RegistryNeverShrinks ==
    /\ [](\A k \in DOMAIN tasks : tasks[k].name = k)
    /\ [][\A k \in DOMAIN tasks :
            /\ k \in DOMAIN tasks'
            /\ tasks[k].status # NOT_STARTED => tasks'[k].status # NOT_STARTED]_vars

RegistryNeverShrinksWitness ==
    /\ pc = "idle"
    /\ clicks = 2
    /\ outcome = "spawnfail"
    /\ Cardinality(DOMAIN tasks) = 6
    /\ \E k \in DOMAIN tasks : tasks[k].status = COMPLETED

(* C16: a NotStarted task has progress 0.0, a Completed or Failed task has
   progress 1.0, and every progress lies between 0.0 and 1.0. *)
StatusProgressConsistent ==
    \A k \in DOMAIN tasks :
        /\ tasks[k].progress \in 0..100
        /\ tasks[k].status = NOT_STARTED => tasks[k].progress = 0
        /\ tasks[k].status \in {COMPLETED, FAILED} => tasks[k].progress = 100

StatusProgressConsistentWitness ==
    /\ pc = "ramp"
    /\ tasks[CurKey].progress = 37
    /\ \E k \in DOMAIN tasks : tasks[k].status = COMPLETED /\ tasks[k].progress = 100
    /\ \E k \in DOMAIN tasks : tasks[k].status = FAILED /\ tasks[k].progress = 100
    /\ \E k \in DOMAIN tasks : tasks[k].status = NOT_STARTED /\ tasks[k].progress = 0

(* C17: while the script is idle and clicks remain, the button of every
   stage whose task exists can be clicked, whatever the status of the tasks
   of the other stages of its combination. *)
StagesIndependentlyTriggerable ==
    \A id \in Identities :
        (pc = "idle" /\ fileExists /\ clicks < MaxClicks /\ KeyOf(id) \in DOMAIN tasks)
            => ENABLED Click(id[1], id[2])

StagesIndependentlyTriggerableWitness ==
    /\ pc = "idle"
    /\ \E c \in 1..Len(experiments) :
         /\ TaskKey(experiments[c], "summary") \in DOMAIN tasks
         /\ tasks[TaskKey(experiments[c], "summary")].status = COMPLETED
         /\ tasks[TaskKey(experiments[c], "check")].status = NOT_STARTED
         /\ tasks[TaskKey(experiments[c], "batch")].status = FAILED
====
